---- MODULE Spec2Model ----
(***************************************************************************)
(* epflo: read an optical-flow file (FLO / FLOW container), resample it    *)
(* bilinearly to a target resolution, write the result (src/main.c).       *)
(*                                                                         *)
(* Representation choices                                                  *)
(*  - an int is a 32-bit two's complement value; + and * wrap modulo 2^32  *)
(*    (Add32, Mul32) and an int is stored in a file as 4 bytes, little     *)
(*    endian (IntBytes / BytesInt).                                        *)
(*  - a float is an exact rational <<num, den>>, den > 0, in lowest terms; *)
(*    the rounding of IEEE single precision is not modelled.  The 4 bytes  *)
(*    of a float in a file are the byte cells <<num, den, k>>, k = 0..3:   *)
(*    fread/fwrite copy them, no arithmetic touches them.                  *)
(*  - a byte of a file is a triple: <<b, 0, 0>> is the plain byte b.       *)
(*  - the conversion (int)floor(r) of an r outside the int range is        *)
(*    undefined: it yields INT_MIN or INT_MAX (ConvOutcomes).  A load      *)
(*    outside a buffer yields an arbitrary float (GarbageVals) or a        *)
(*    fault; a store outside a buffer ends the run with a fault.           *)
(***************************************************************************)
EXTENDS Integers, Sequences, FiniteSets, TLC

(* ---------------- bounds of the model ---------------- *)
MaxSrcDim == 2
MaxDstDim == 3

BigDim == 2^16
TinyDen == 2^30

INT_MAX == (2^30 - 1) + 2^30
INT_MIN == (-INT_MAX) - 1

(* ---------------- 32-bit int arithmetic ---------------- *)
Abs(n) == IF n < 0 THEN -n ELSE n

Add32(a, b) ==
    IF b > 0 /\ a > INT_MAX - b THEN (a + INT_MIN) + (b + INT_MIN)
    ELSE IF b < 0 /\ a < INT_MIN - b THEN (a - INT_MIN) + (b - INT_MIN)
    ELSE a + b

Neg32(a) == IF a = INT_MIN THEN INT_MIN ELSE -a

RECURSIVE MulNat32(_, _)
MulNat32(a, n) ==
    IF n = 0 THEN 0
    ELSE LET t == MulNat32(Add32(a, a), n \div 2)
         IN  IF n % 2 = 1 THEN Add32(t, a) ELSE t

Mul32(a, b) ==
    IF -(2^15) < a /\ a < 2^15 /\ -(2^15) < b /\ b < 2^15 THEN a * b
    ELSE IF b >= 0 THEN MulNat32(a, b)
    ELSE IF a >= 0 THEN MulNat32(b, a)
    ELSE IF b = INT_MIN THEN (IF a % 2 = 0 THEN 0 ELSE INT_MIN)
    ELSE Neg32(MulNat32(a, -b))

(* ---------------- rationals (float values) ---------------- *)
RECURSIVE GCD(_, _)
GCD(a, b) == IF b = 0 THEN a ELSE GCD(b, a % b)

Norm(n, d) ==
    LET g == GCD(Abs(n), Abs(d))
        s == IF d < 0 THEN -1 ELSE 1
    IN  IF g = 0 THEN <<0, 1>> ELSE <<s * (n \div g), s * (d \div g)>>

RAdd(p, q) == Norm(p[1] * q[2] + q[1] * p[2], p[2] * q[2])
RMul(p, q) == Norm(p[1] * q[1], p[2] * q[2])
RSub(p, q) == RAdd(p, <<-q[1], q[2]>>)
RLess(p, q) == p[1] * q[2] < q[1] * p[2]
RAbs(p) == <<Abs(p[1]), p[2]>>
Zero == <<0, 1>>
One == <<1, 1>>

(* ---------------- bytes of a file ---------------- *)
RawByte(b) == <<b, 0, 0>>
RawBytes(s) == [i \in 1..Len(s) |-> RawByte(s[i])]

IntBytes(n) ==
    LET m  == IF n >= 0 THEN n ELSE n - INT_MIN
        hi == IF n >= 0 THEN 0 ELSE 128
    IN  RawBytes(<<m % 256, (m \div 256) % 256, (m \div 65536) % 256,
                   (m \div 16777216) + hi>>)

BytesInt(s) ==
    LET b3 == s[4][1]
        lo == s[1][1] + 256 * s[2][1] + 65536 * s[3][1]
    IN  IF b3 >= 128 THEN (lo + 16777216 * (b3 - 128)) + INT_MIN
        ELSE lo + 16777216 * b3

FloatBytes(v) == [k \in 1..4 |-> <<v[1], v[2], k - 1>>]

(* 4 byte cells that are not the image of one float: some other float *)
OtherFloat == <<0, 0>>

BytesFloat(s) ==
    IF \A k \in 1..4 : s[k] = <<s[1][1], s[1][2], k - 1>> /\ s[k][2] > 0
    THEN <<s[1][1], s[1][2]>>
    ELSE OtherFloat

RECURSIVE Flatten(_)
Flatten(ss) == IF ss = <<>> THEN <<>> ELSE Head(ss) \o Flatten(Tail(ss))

(* ---------------- the container format ---------------- *)
Formats == {"FF_FLO", "FF_FLOW"}

(* "PIEH", "PIEI" *)
flo_formats(fmt) == IF fmt = "FF_FLO" THEN <<80, 73, 69, 72>> ELSE <<80, 73, 69, 73>>

(* items per block: vx, vy, possibly confidence *)
Npb(fmt) == IF fmt = "FF_FLOW" THEN 3 ELSE 2

NULL == [w |-> 0, h |-> 0, fmt |-> "NULL", nmemb |-> 0, data |-> <<>>]

(* sz = w * h; sz *= 2 or 3 *)
ReadNmemb(w, h, fmt) == Mul32(Mul32(w, h), Npb(fmt))

(* read_flow on a file that test_files found; res is "ok", "null" (NULL is  *)
(* returned) or "fault" (fread stores through the NULL that malloc returned *)
(* for a negative nmemb converted to size_t)                                *)
read_flow(bytes) ==
    LET n    == Len(bytes)
        tag  == SubSeq(bytes, 1, 4)
        fail == [res |-> "null", flow |-> NULL]
    IN  IF n < 4 THEN fail
        ELSE IF \A f \in Formats : tag # RawBytes(flo_formats(f)) THEN fail
        ELSE IF n < 8 THEN fail
        ELSE IF n < 12 THEN fail
        ELSE LET fmt == CHOOSE f \in Formats : tag = RawBytes(flo_formats(f))
                 w   == BytesInt(SubSeq(bytes, 5, 8))
                 h   == BytesInt(SubSeq(bytes, 9, 12))
                 sz  == ReadNmemb(w, h, fmt)
                 rest == n - 12
             IN  IF w <= 0 \/ h <= 0 THEN fail
                 ELSE IF sz < 0
                      THEN (IF rest = 0 THEN fail ELSE [res |-> "fault", flow |-> NULL])
                 ELSE IF rest \div 4 < sz THEN fail
                 ELSE [res |-> "ok",
                       flow |-> [w |-> w, h |-> h, fmt |-> fmt, nmemb |-> sz,
                                 data |-> [i \in 1..sz |->
                                     BytesFloat(SubSeq(bytes, 9 + 4 * i, 12 + 4 * i))]]]

(* write_flow with the height written before the width *)
write_flow_hw(flo) ==
    RawBytes(flo_formats(flo.fmt)) \o IntBytes(flo.h) \o IntBytes(flo.w)
        \o Flatten([i \in 1..flo.nmemb |-> FloatBytes(flo.data[i])])

(* the bytes write_flow hands to the stream: tag, w, h, nmemb floats *)
write_flow(flo) ==
    RawBytes(flo_formats(flo.fmt)) \o IntBytes(flo.w) \o IntBytes(flo.h)
        \o Flatten([i \in 1..flo.nmemb |-> FloatBytes(flo.data[i])])

(* ---------------- resampling ---------------- *)
(* _U_IDX, _V_IDX, _C_IDX: c = 0, 1, 2 *)
IDX(flow, x, y, npb, c) ==
    Add32(Add32(Mul32(y, Mul32(flow.w, npb)), Mul32(x, npb)), c)

(* the buffer sized for three items per block whatever the format *)
OutNmembThree(npb, w, h) == Mul32(Mul32(3, w), h)

(* out_flo->nmemb = npb * w * h *)
OutNmemb(npb, w, h) == Mul32(Mul32(npb, w), h)

(* the quotient the usage text names: input-{w,h} / output-{w,h} *)
DefaultScaleInverse(target, source) == Norm(source, target)

(* sx = (float)w / (float)in_flo->w *)
DefaultScale(target, source) == Norm(target, source)

(* r = x / s for an int x >= 0 and a scale s = <<num, den>> > 0:           *)
(* floor(r) = x * (den \div num) + (x * (den % num)) \div num              *)
Overflows(x, s) ==
    LET q == s[2] \div s[1]
        r == s[2] % s[1]
    IN  x > 0 /\ (q > INT_MAX \div x \/ x * q > INT_MAX - ((x * r) \div s[1]))

FloorQ(x, s) == x * (s[2] \div s[1]) + (x * (s[2] % s[1])) \div s[1]

Frac(x, s) == Norm((x * (s[2] % s[1])) % s[1], s[1])

(* interpolate2D_weights: w[wx][wy] *)
interpolate2D_weights(fx, fy, wx, wy) ==
    RMul(IF wx = 1 THEN fx ELSE RSub(One, fx), IF wy = 1 THEN fy ELSE RSub(One, fy))

(* the bounds test with > for >= *)
SkippedOffByOne(flow, ix, iy) == ix > flow.w \/ iy > flow.h

(* the corner is read unless  ix >= in_flo->w || iy >= in_flo->h  *)
Skipped(flow, ix, iy) == ix >= flow.w \/ iy >= flow.h

(* iterations of  for (i = k1; i < k1 + 2; i++)  as offsets from k1 *)
LoopOffsets(k1) == IF k1 < Add32(k1, 2) THEN {0, 1} ELSE {}

ConvOutcomes == {INT_MIN, INT_MAX}
GarbageVals == {<<7, 1>>}

(* one pass of the body of the x loop (lines 256-283) for the cell (x, y),  *)
(* conv the outcome of an out-of-range (int)floor, g what a load outside   *)
(* the source buffer yields                                                *)
Cell(flow, x, y, sx, sy, conv, g) ==
    LET npb == Npb(flow.fmt)
        ovx == Overflows(x, sx)
        ovy == Overflows(y, sy)
        kx1 == IF ovx THEN conv ELSE FloorQ(x, sx)
        ky1 == IF ovy THEN conv ELSE FloorQ(y, sy)
        fx  == IF ovx THEN Zero ELSE Frac(x, sx)
        fy  == IF ovy THEN Zero ELSE Frac(y, sy)
        used == {p \in LoopOffsets(kx1) \X LoopOffsets(ky1) :
                    ~Skipped(flow, Add32(kx1, p[1]), Add32(ky1, p[2]))}
        at(p, c) == IDX(flow, Add32(kx1, p[1]), Add32(ky1, p[2]), npb, c)
        load(i) == IF 0 <= i /\ i < flow.nmemb THEN flow.data[i + 1] ELSE g
        term(p, c) == IF p \in used
                      THEN RMul(interpolate2D_weights(fx, fy, p[1], p[2]), load(at(p, c)))
                      ELSE Zero
        sum(c) == RAdd(RAdd(RAdd(term(<<0, 0>>, c), term(<<1, 0>>, c)),
                            term(<<0, 1>>, c)), term(<<1, 1>>, c))
    IN  [cor |-> {<<Add32(kx1, p[1]), Add32(ky1, p[2])>> : p \in used},
         rd  |-> {at(p, c) : p \in used, c \in 0..(npb - 1)},
         val |-> [c \in 0..(npb - 1) |->
                    IF (ovx \/ ovy) /\ used # {} THEN g ELSE sum(c)]]

(* ---------------- inputs of a run ---------------- *)
(* sample i (from 0) of a payload: pattern 0 is the ramp 1, 2, 3, ...,     *)
(* pattern k # 0 the constant k                                            *)
ConstVals == {-1, 2}
Patterns == {0} \cup ConstVals
Sample(pat, i) == IF pat = 0 THEN <<i + 1, 1>> ELSE <<pat, 1>>

Container(tag, w, h, pat, n) ==
    RawBytes(tag) \o IntBytes(w) \o IntBytes(h)
        \o Flatten([i \in 1..n |-> FloatBytes(Sample(pat, i - 1))])

SrcDims == 1..MaxSrcDim

(* complete containers: ramps of every size, one with a float after the   *)
(* payload, constant fields of the square sizes                            *)
GoodFiles ==
    {Container(flo_formats(f), w, h, 0, w * h * Npb(f)) :
        f \in Formats, w \in SrcDims, h \in SrcDims}
    \cup {Container(flo_formats(f), 1, 1, 0, Npb(f) + 1) : f \in Formats}
    \cup {Container(flo_formats(f), d, d, k, d * d * Npb(f)) :
        f \in Formats, d \in SrcDims, k \in ConstVals}

(* cut inside the tag, the width, the height, before and inside the payload *)
CutFiles ==
    UNION {{SubSeq(c, 1, k) : k \in {2, 6, 10, 12, Len(c) - 1}} :
        c \in {Container(flo_formats(f), 1, 1, 0, Npb(f)) : f \in Formats}}

(* "PIEX" *)
BadTagFiles == {Container(<<80, 73, 69, 88>>, 1, 1, 0, 2)}

BadDimFiles ==
    {Container(flo_formats("FF_FLO"), d[1], d[2], 0, 2) : d \in {<<0, 1>>, <<1, -1>>}}

(* headers whose w * h * channels does not fit an int *)
BigFiles ==
    {Container(flo_formats(f), BigDim, BigDim, 0, 0) : f \in Formats}
    \cup {Container(flo_formats(f), BigDim \div 2, BigDim \div 2, 0, n) :
        f \in Formats, n \in {0, 3}}

InputFiles == GoodFiles \cup CutFiles \cup BadTagFiles \cup BadDimFiles \cup BigFiles

(* values of -w, -h: atoi accepts every int *)
TargetSizes ==
    ((1..MaxDstDim) \X (1..MaxDstDim))
        \cup {<<0, 0>>, <<0, 2>>, <<-1, -1>>, <<-1, 1>>, <<BigDim, BigDim>>}

(* values of -x, -y; -1.0 when the option is not given (line 309) *)
NoScale == <<-1, 1>>
ScaleArgs == {NoScale, <<1, 1>>, <<2, 1>>, <<1, TinyDen>>}
ScalePairs ==
    {<<s, s>> : s \in ScaleArgs}
        \cup {<<<<1, TinyDen>>, NoScale>>, <<NoScale, <<1, TinyDen>>>>,
               <<<<2, 1>>, NoScale>>, <<NoScale, <<1, 1>>>>}

(* what the destination does when write_flow runs *)
Destinations == {"ok", "noopen", "full"}
FullAfter == 14

(* ---------------- state ---------------- *)
VARIABLES
    pc,         \* "main", "returned" (main returned without extrapolate),
                \* "extrapolate", "alloc", "loop", "done", "crashed"
    inAvail,    \* the in-file exists (stat succeeds, fopen succeeds)
    inFile,     \* its bytes
    args,       \* w, h, sx, sy of main
    in_flo,     \* extrapolate's in_flo, NULL before read_flow
    out_flo,    \* extrapolate's out_flo
    sx, sy,     \* extrapolate's sx, sy (reassigned at lines 250-251)
    x, y,       \* the loop counters of lines 254-255
    acc,        \* the corners and indices the last pass of the loop body used
    dst,        \* what the destination did, "unused" before write_flow
    outOpened,  \* the out-file was opened (and truncated)
    outFile,    \* its bytes
    wf_ret,     \* what write_flow returned: "none", "0", "-1"
    status      \* exit status: "running", "EXIT_SUCCESS", "EXIT_FAILURE", "SIGSEGV"

vars == <<pc, inAvail, inFile, args, in_flo, out_flo, sx, sy, x, y, acc, dst,
          outOpened, outFile, wf_ret, status>>

NoAcc == [cor |-> {}, rd |-> {}, wr |-> {}]
NoArgs == [w |-> 0, h |-> 0, sx |-> NoScale, sy |-> NoScale]

Init ==
    /\ pc = "main"
    /\ \/ inAvail = FALSE /\ inFile = <<>>
       \/ inAvail = TRUE /\ inFile \in InputFiles
    /\ args = NoArgs
    /\ in_flo = NULL
    /\ out_flo = NULL
    /\ sx = NoScale /\ sy = NoScale
    /\ x = 0 /\ y = 0
    /\ acc = NoAcc
    /\ dst = "unused"
    /\ outOpened = FALSE
    /\ outFile = <<>>
    /\ wf_ret = "none"
    /\ status = "running"

(* main, lines 303-346: the options are complete and two paths follow *)
Main ==
    /\ pc = "main"
    /\ \E t \in TargetSizes, s \in ScalePairs :
          args' = [w |-> t[1], h |-> t[2], sx |-> s[1], sy |-> s[2]]
    /\ pc' = "extrapolate"
    /\ UNCHANGED <<inAvail, inFile, in_flo, out_flo, sx, sy, x, y, acc, dst,
                   outOpened, outFile, wf_ret, status>>

(* main returns without calling extrapolate: -H, an unknown option,        *)
(* -w or -h missing, not two paths                                         *)
MainReturns ==
    /\ pc = "main"
    /\ \E how \in {"help", "unknown", "missing", "paths"} :
          status' = IF how = "help" THEN "EXIT_SUCCESS" ELSE "EXIT_FAILURE"
    /\ pc' = "returned"
    /\ UNCHANGED <<inAvail, inFile, args, in_flo, out_flo, sx, sy, x, y, acc, dst,
                   outOpened, outFile, wf_ret>>

(* extrapolate, lines 224-227: test_files and read_flow *)
ReadInput ==
    /\ pc = "extrapolate"
    /\ LET r == IF inAvail THEN read_flow(inFile) ELSE [res |-> "null", flow |-> NULL]
       IN  /\ in_flo' = r.flow
           /\ pc' = IF r.res = "ok" THEN "alloc"
                    ELSE IF r.res = "fault" THEN "crashed" ELSE "done"
           /\ status' = IF r.res = "ok" THEN status
                        ELSE IF r.res = "fault" THEN "SIGSEGV" ELSE "EXIT_FAILURE"
    /\ UNCHANGED <<inAvail, inFile, args, out_flo, sx, sy, x, y, acc, dst,
                   outOpened, outFile, wf_ret>>

(* extrapolate, lines 229-251: the zeroed output field and the scalings;   *)
(* a negative nmemb makes malloc return NULL and memset (line 247) fault   *)
Alloc ==
    /\ pc = "alloc"
    /\ LET npb == Npb(in_flo.fmt)
           n   == OutNmemb(npb, args.w, args.h)
       IN  /\ out_flo' = [w |-> args.w, h |-> args.h, fmt |-> in_flo.fmt, nmemb |-> n,
                          data |-> [i \in 1..n |-> Zero]]
           /\ pc' = IF n < 0 THEN "crashed" ELSE "loop"
           /\ status' = IF n < 0 THEN "SIGSEGV" ELSE status
           /\ sx' = IF n < 0 THEN sx
                    ELSE IF args.sx[1] <= 0 THEN DefaultScale(args.w, in_flo.w)
                    ELSE args.sx
           /\ sy' = IF n < 0 THEN sy
                    ELSE IF args.sy[1] <= 0 THEN DefaultScale(args.h, in_flo.h)
                    ELSE args.sy
    /\ x' = 0 /\ y' = 0
    /\ UNCHANGED <<inAvail, inFile, args, in_flo, acc, dst, outOpened, outFile, wf_ret>>

(* the loops of lines 254-255 have ended *)
LoopDone == args.w <= 0 \/ y >= args.h

(* one pass of the loop body, lines 256-283 *)
ResampleCell ==
    /\ pc = "loop"
    /\ ~LoopDone
    /\ LET npb   == Npb(in_flo.fmt)
           undef == Overflows(x, sx) \/ Overflows(y, sy)
           base  == IDX(out_flo, x, y, npb, 0)
           wr    == {IDX(out_flo, x, y, npb, c) : c \in 0..(npb - 1)}
           wrOut == \E i \in wr : i < 0 \/ i >= out_flo.nmemb
       IN  \E conv \in (IF undef THEN ConvOutcomes ELSE {INT_MIN}) :
             LET rd    == Cell(in_flo, x, y, sx, sy, conv, Zero).rd
                 rdOut == \E i \in rd : i < 0 \/ i >= in_flo.nmemb
             IN  \E g \in (IF undef \/ rdOut THEN GarbageVals ELSE {Zero}),
                    fate \in (IF rdOut THEN {"go", "fault"} ELSE {"go"}) :
                   LET cell == Cell(in_flo, x, y, sx, sy, conv, g)
                   IN  /\ acc' = [cor |-> cell.cor, rd |-> cell.rd, wr |-> wr]
                       /\ IF wrOut \/ fate = "fault"
                          THEN /\ pc' = "crashed"
                               /\ status' = "SIGSEGV"
                               /\ UNCHANGED <<out_flo, x, y>>
                          ELSE /\ out_flo' = [out_flo EXCEPT !.data =
                                      [i \in 1..out_flo.nmemb |->
                                          IF base < i /\ i <= base + npb
                                          THEN cell.val[(i - 1) - base]
                                          ELSE out_flo.data[i]]]
                               /\ x' = IF x + 1 < args.w THEN x + 1 ELSE 0
                               /\ y' = IF x + 1 < args.w THEN y ELSE y + 1
                               /\ UNCHANGED <<pc, status>>
    /\ UNCHANGED <<inAvail, inFile, args, in_flo, sx, sy, dst, outOpened, outFile, wf_ret>>

(* extrapolate, lines 287-290: write_flow (lines 168-184), its result      *)
(* dropped, then EXIT_SUCCESS.  A destination that cannot be opened makes  *)
(* write_flow return -1; one that is full keeps the first FullAfter bytes  *)
(* and fwrite's short count is not looked at.                              *)
WriteFlow ==
    /\ pc = "loop"
    /\ LoopDone
    /\ \E d \in Destinations :
         LET bytes == write_flow(out_flo)
         IN  /\ dst' = d
             /\ outOpened' = (d # "noopen")
             /\ outFile' = IF d = "ok" THEN bytes
                           ELSE IF d = "full"
                                THEN SubSeq(bytes, 1, IF Len(bytes) < FullAfter
                                                      THEN Len(bytes) ELSE FullAfter)
                                ELSE outFile
             /\ wf_ret' = IF d = "noopen" THEN "-1" ELSE "0"
    /\ status' = "EXIT_SUCCESS"
    /\ pc' = "done"
    /\ UNCHANGED <<inAvail, inFile, args, in_flo, out_flo, sx, sy, x, y, acc>>

Next == Main \/ MainReturns \/ ReadInput \/ Alloc \/ ResampleCell \/ WriteFlow

Spec == Init /\ [][Next]_vars

(* ---------------- notions the claims use ---------------- *)
(* lines 250-251 were reached: the output field is allocated and zeroed *)
Started == pc \in {"loop", "done", "crashed"} /\ out_flo # NULL /\ out_flo.nmemb >= 0

(* a * b * c as a mathematical product, c > 0 *)
ProductFits(a, b, c) == a = 0 \/ b = 0 \/ Abs(a) <= (INT_MAX \div c) \div Abs(b)
ProductIs(n, a, b, c) == ProductFits(a, b, c) /\ n = a * b * c

Channels(f) == IF f.fmt = "FF_FLOW" THEN 3 ELSE 2

(* a MotionField of section 3 of the specification *)
ValidField(f) ==
    /\ f.fmt \in Formats
    /\ f.w > 0 /\ f.h > 0
    /\ ProductIs(f.nmemb, f.w, f.h, Channels(f))
    /\ Len(f.data) = f.nmemb

(* sample c of the cell (cx, cy): position (cy * width + cx) * channels + c *)
At(f, cx, cy, c) == f.data[(cy * f.w + cx) * Channels(f) + c + 1]

(* the cells the loop has stored *)
Stored ==
    IF Started
    THEN UNION {{<<cx, cy>> : cx \in 0..(args.w - 1)} : cy \in 0..(y - 1)}
            \cup {<<cx, y>> : cx \in 0..(x - 1)}
    ELSE {}

(* ---------------- C1 ---------------- *)
(* C1: a valid field that write_flow wrote completely is read back by      *)
(* read_flow: it succeeds and returns the same width, height, format,      *)
(* sample count and samples in the same order.                             *)
C1_RoundTrip ==
    (pc = "done" /\ dst = "ok" /\ ValidField(out_flo))
        => read_flow(outFile) = [res |-> "ok", flow |-> out_flo]

C1_Witness ==
    /\ pc = "done" /\ dst = "ok" /\ ValidField(out_flo)
    /\ out_flo.fmt = "FF_FLOW" /\ out_flo.w = 3 /\ out_flo.h = 2
    /\ out_flo.data[1] # out_flo.data[4]
    /\ Len(outFile) = 12 + 4 * 18

RunWith(t1, t2, p, c) == Cell(in_flo, p[1], p[2], t1, t2, INT_MIN, Zero).val[c]

ConstSource(k) ==
    /\ in_flo.w = 2 /\ in_flo.h = 2
    /\ \A i \in 1..in_flo.nmemb : in_flo.data[i] = <<k, 1>>

(* the cell p maps past the last source column or row: its top-left corner *)
(* is inside the source and a corner with a positive weight is outside     *)
Straddles(p) ==
    /\ ~Overflows(p[1], sx) /\ ~Overflows(p[2], sy)
    /\ LET ix == FloorQ(p[1], sx)
           iy == FloorQ(p[2], sy)
       IN  /\ ix < in_flo.w /\ iy < in_flo.h
           /\ \/ ix = in_flo.w - 1 /\ Frac(p[1], sx)[1] > 0
              \/ iy = in_flo.h - 1 /\ Frac(p[2], sy)[1] > 0

LargerGrid == args.w >= in_flo.w /\ args.h >= in_flo.h /\ args.w + args.h > in_flo.w + in_flo.h

(* C7 as stated: for a 2 x 2 source of the nonzero constant k resampled to *)
(* a larger grid, an edge cell that maps past the last source row or       *)
(* column holds a value strictly less than k.                              *)
C7_AsStated ==
    \A k \in ConstVals :
        (Started /\ ConstSource(k) /\ LargerGrid) =>
            \A p \in Stored : Straddles(p) =>
                \A c \in 0..(Channels(in_flo) - 1) :
                    RLess(At(out_flo, p[1], p[2], c), <<k, 1>>)

(* C7 amended: such an edge cell holds a value of strictly smaller         *)
(* magnitude than k, and strictly less than k when k > 0.                  *)
C7_Attenuation ==
    \A k \in ConstVals :
        (Started /\ ConstSource(k) /\ LargerGrid) =>
            \A p \in Stored : Straddles(p) =>
                \A c \in 0..(Channels(in_flo) - 1) :
                    /\ RLess(RAbs(At(out_flo, p[1], p[2], c)), RAbs(<<k, 1>>))
                    /\ k > 0 => RLess(At(out_flo, p[1], p[2], c), <<k, 1>>)

C7_Witness ==
    /\ Started /\ ConstSource(2) /\ LargerGrid
    /\ args.w = 3 /\ args.h = 3
    /\ <<2, 2>> \in Stored /\ Straddles(<<2, 2>>)
    /\ At(out_flo, 2, 2, 0) = <<8, 9>>

(* ---------------- C2 ---------------- *)
(* the bilinear weight of the corner (ix + dx, iy + dy) *)
BilinearWeight(fx, fy, dx, dy) ==
    IF dx = 0 /\ dy = 0 THEN RMul(RSub(One, fx), RSub(One, fy))
    ELSE IF dx = 1 /\ dy = 0 THEN RMul(fx, RSub(One, fy))
    ELSE IF dx = 0 /\ dy = 1 THEN RMul(RSub(One, fx), fy)
    ELSE RMul(fx, fy)

(* the value section 4.2 of the specification gives the cell p, sample c:  *)
(* when floor(x / scaleX) or floor(y / scaleY) exceeds INT_MAX every       *)
(* corner is outside the source and the sum is empty                       *)
Bilinear(p, c) ==
    IF Overflows(p[1], sx) \/ Overflows(p[2], sy) THEN Zero
    ELSE LET ix == FloorQ(p[1], sx)
             iy == FloorQ(p[2], sy)
             fx == Frac(p[1], sx)
             fy == Frac(p[2], sy)
             part(dx, dy) ==
                 IF 0 <= ix + dx /\ ix + dx < in_flo.w /\ 0 <= iy + dy /\ iy + dy < in_flo.h
                 THEN RMul(BilinearWeight(fx, fy, dx, dy), At(in_flo, ix + dx, iy + dy, c))
                 ELSE Zero
         IN  RAdd(RAdd(part(0, 0), part(1, 0)), RAdd(part(0, 1), part(1, 1)))

(* C2: every stored cell holds, for every channel, the sum over the        *)
(* corners inside the source of bilinear weight times source value, the    *)
(* corners outside contributing nothing.                                   *)
C2_BilinearSum ==
    (Started /\ ValidField(in_flo)) =>
        \A p \in Stored : \A c \in 0..(Channels(in_flo) - 1) :
            At(out_flo, p[1], p[2], c) = Bilinear(p, c)

(* the same where both conversions (int)floor are defined *)
C2_WhereDefined ==
    (Started /\ ValidField(in_flo)) =>
        \A p \in Stored : \A c \in 0..(Channels(in_flo) - 1) :
            (~Overflows(p[1], sx) /\ ~Overflows(p[2], sy))
                => At(out_flo, p[1], p[2], c) = Bilinear(p, c)

(* ---------------- C4 ---------------- *)
(* the payload holds fewer than w * h * channels * 4 bytes *)
PayloadShort(len, w, h, ch) == ~(w <= ((len \div 4) \div ch) \div h)

(* the conditions under which decoding is to fail *)
Undecodable ==
    \/ ~inAvail
    \/ Len(inFile) < 4
    \/ \A f \in Formats : SubSeq(inFile, 1, 4) # RawBytes(flo_formats(f))
    \/ Len(inFile) < 12
    \/ BytesInt(SubSeq(inFile, 5, 8)) <= 0
    \/ BytesInt(SubSeq(inFile, 9, 12)) <= 0
    \/ PayloadShort(Len(inFile) - 12, BytesInt(SubSeq(inFile, 5, 8)),
                    BytesInt(SubSeq(inFile, 9, 12)),
                    IF SubSeq(inFile, 1, 4) = RawBytes(flo_formats("FF_FLOW")) THEN 3 ELSE 2)

Ended == pc \in {"done", "crashed"}

(* C4: when the input cannot be decoded, no field is returned, nothing is  *)
(* resampled, the destination is never opened and the run ends with a      *)
(* failure status.                                                         *)
C4_DecodeFailureAborts ==
    (Undecodable /\ pc \notin {"main", "returned", "extrapolate"}) =>
        /\ in_flo = NULL
        /\ out_flo = NULL
        /\ acc = NoAcc
        /\ ~outOpened
        /\ Ended /\ status # "EXIT_SUCCESS"

(* the same for the failures read_flow detects: it returned NULL *)
C4_WhenNullReturned ==
    (pc \notin {"main", "returned", "extrapolate"} /\ in_flo = NULL) =>
        /\ out_flo = NULL
        /\ acc = NoAcc
        /\ ~outOpened /\ outFile = <<>>
        /\ Ended /\ status # "EXIT_SUCCESS"

(* ---------------- C5 ---------------- *)
(* C5: a run in which write_flow could not open the destination, or the    *)
(* destination did not take the whole container, does not end with         *)
(* EXIT_SUCCESS.                                                           *)
C5_WriteFailureReported ==
    (pc = "done" /\ dst # "unused" /\ (~outOpened \/ outFile # write_flow(out_flo)))
        => status # "EXIT_SUCCESS"

(* ---------------- C8 ---------------- *)
(* C8: every field the program constructs has width > 0 and height > 0.    *)
C8_PositiveDimensions ==
    /\ in_flo # NULL => (in_flo.w > 0 /\ in_flo.h > 0)
    /\ out_flo # NULL => (out_flo.w > 0 /\ out_flo.h > 0)

(* ---------------- C9 ---------------- *)
(* C9: a field read_flow returns has exactly width * height * channels     *)
(* samples, the product taken over the integers.                           *)
C9_SampleCount ==
    in_flo # NULL => ProductIs(in_flo.nmemb, in_flo.w, in_flo.h, Channels(in_flo))

(* ---------------- C10 ---------------- *)
(* C10: for a valid source and a target width > 0 and height > 0, every    *)
(* index the loop body reads the source at is in [0, source.nmemb), every  *)
(* index it writes the destination at is in [0, dest.nmemb), and no corner *)
(* coordinate is negative.                                                 *)
C10_MemorySafe ==
    (Started /\ ValidField(in_flo) /\ args.w > 0 /\ args.h > 0) =>
        /\ \A i \in acc.rd : 0 <= i /\ i < in_flo.nmemb
        /\ \A i \in acc.wr : 0 <= i /\ i < out_flo.nmemb
        /\ \A q \in acc.cor : q[1] >= 0 /\ q[2] >= 0

(* the same where both conversions are defined and the output size fits    *)
C10_WhereDefined ==
    (Started /\ ValidField(in_flo) /\ args.w > 0 /\ args.h > 0
        /\ ProductFits(args.w, args.h, Channels(in_flo))
        /\ ~Overflows(args.w - 1, sx) /\ ~Overflows(args.h - 1, sy)) =>
        /\ \A i \in acc.rd : 0 <= i /\ i < in_flo.nmemb
        /\ \A i \in acc.wr : 0 <= i /\ i < out_flo.nmemb
        /\ \A q \in acc.cor : q[1] >= 0 /\ q[2] >= 0

====
